---- MODULE Spec2Model ----
(***************************************************************************)
(* Model of lambda-functions/upload-handler/handler.py: the presigned-URL  *)
(* upload handler (lambda_handler), its filename sanitizer                 *)
(* (sanitize_filename) and its error envelope (error_response).            *)
(*                                                                         *)
(* Text is modelled as a sequence of one-character strings wherever the    *)
(* code inspects or cuts it (filenames, dates, identifiers, storage keys); *)
(* text the code only passes along or compares whole (content types,       *)
(* fixed messages) is a TLA+ string.                                       *)
(***************************************************************************)
EXTENDS Integers, Sequences, FiniteSets, TLC

VARIABLES
    pc,        \* "idle" | "received" | "returned" | "faulted": position of the invocation
    now,       \* index into Dates: the UTC day datetime.utcnow() reports
    event,     \* the event of the current invocation
    response,  \* what lambda_handler returned for it
    trace,     \* what the invocation drew from its environment (clock, uuid4, issuer)
    keys,      \* history: the fileKey of every 200 response, in order
    used,      \* history: the identifiers uuid4 has produced
    sfpc,      \* "none" | "in" | "sanitized" | "keyed": position of the sanitizer run
    sfIn,      \* filename handed to sanitize_filename
    sfOut,     \* what sanitize_filename returned
    sfKey      \* storage key built from sfOut

vars == <<pc, now, event, response, trace, keys, used, sfpc, sfIn, sfOut, sfKey>>

handlerVars == <<pc, now, event, response, trace, keys, used>>
sanitizeVars == <<sfpc, sfIn, sfOut, sfKey>>

(***************************************************************************)
(* Bounds of the model.                                                    *)
(***************************************************************************)
MaxLen == 4          \* every filename over Alphabet up to this length is tried
MaxDelta == 2        \* lengths within this distance of max_length are tried
MaxInvocations == 2  \* invocations recorded in the key history

(***************************************************************************)
(* Python string helpers, as sanitize_filename uses them.                  *)
(***************************************************************************)
Rep(c, n) == [i \in 1..n |-> c]

\* s[:k] with Python's slice rules: a negative k counts from the end.
PySlicePrefix(s, k) ==
    IF k >= 0
    THEN SubSeq(s, 1, IF k < Len(s) THEN k ELSE Len(s))
    ELSE SubSeq(s, 1, IF Len(s) + k > 0 THEN Len(s) + k ELSE 0)

\* s.rfind(c) + 1: the 1-based position of the last c, 0 when there is none.
RFind(s, c) ==
    LET hits == {i \in 1..Len(s) : s[i] = c}
    IN IF hits = {} THEN 0 ELSE CHOOSE i \in hits : \A j \in hits : j <= i

\* posixpath.basename: everything after the last '/'.
basename(p) == SubSeq(p, RFind(p, "/") + 1, Len(p))

\* posixpath.splitext: split at the last '.', unless that dot is one of the
\* leading dots of the final path segment.
splitext(p) ==
    LET sepIndex == RFind(p, "/")
        dotIndex == RFind(p, ".")
    IN IF /\ dotIndex > sepIndex
          /\ \E i \in (sepIndex + 1)..(dotIndex - 1) : p[i] # "."
       THEN [name |-> SubSeq(p, 1, dotIndex - 1), ext |-> SubSeq(p, dotIndex, Len(p))]
       ELSE [name |-> p, ext |-> <<>>]

max_length == 200

dangerous_chars_no_backslash == {"<", ">", ":", "\"", "/", "|", "?", "*", "NUL"}

\* "NUL" stands for the one character '\x00'.
dangerous_chars == {"<", ">", ":", "\"", "/", "\\", "|", "?", "*", "NUL"}

\* the loop of str.replace(char, '_') over dangerous_chars
replace_dangerous(filename) ==
    [i \in 1..Len(filename) |->
        IF filename[i] \in dangerous_chars THEN "_" ELSE filename[i]]

sanitize_filename(filename) ==
    LET based == basename(filename)
        replaced == replace_dangerous(based)
    IN IF Len(replaced) > max_length
       THEN LET parts == splitext(replaced)
            IN PySlicePrefix(parts.name, max_length - Len(parts.ext)) \o parts.ext
       ELSE replaced

(***************************************************************************)
(* Key construction: strftime('%Y/%m/%d'), str(uuid4()), the f-string.     *)
(***************************************************************************)
Digits == <<"0", "1", "2", "3", "4", "5", "6", "7", "8", "9">>
HexDigits == Digits \o <<"a", "b", "c", "d", "e", "f">>

Pow10(n) == IF n = 0 THEN 1 ELSE IF n = 1 THEN 10 ELSE IF n = 2 THEN 100 ELSE 1000

\* n as w zero-padded decimal digits
Pad(n, w) == [i \in 1..w |-> Digits[((n \div Pow10(w - i)) % 10) + 1]]

\* the UTC days the clock passes through: <<year, month, day>>
Dates == << <<2026, 11, 4>>, <<2026, 12, 31>>, <<2027, 1, 1>> >>

strftime(d) == Pad(d[1], 4) \o <<"/">> \o Pad(d[2], 2) \o <<"/">> \o Pad(d[3], 2)

\* the identifiers uuid4 can produce here
UUIDs == 1..MaxInvocations

\* str(uuid.UUID): 36 characters, 8-4-4-4-12 hexadecimal digits, version 4
UuidStr(u) ==
    Rep("0", 8) \o <<"-">> \o Rep("0", 4) \o <<"-", "4">> \o Rep("0", 3)
      \o <<"-", "8">> \o Rep("0", 3) \o <<"-">> \o Rep("0", 11)
      \o <<HexDigits[(u % 16) + 1]>>

file_key_no_uuid(d, u, safe_filename) ==
    strftime(d) \o <<"/">> \o safe_filename

file_key_no_date(d, u, safe_filename) ==
    UuidStr(u) \o <<"-">> \o safe_filename

file_key(d, u, safe_filename) ==
    strftime(d) \o <<"/">> \o UuidStr(u) \o <<"-">> \o safe_filename

(***************************************************************************)
(* The sanitizer on its own: every short filename over Alphabet, and long  *)
(* filenames with stems and extensions around max_length.                  *)
(***************************************************************************)
Alphabet == {"a", ".", "/", "\\"}

ShortNames == UNION {[1..n -> Alphabet] : n \in 0..MaxLen}

NearMax == (max_length - MaxDelta)..(max_length + MaxDelta)

StemLens == {1, 500} \cup NearMax
ExtLens == {0, 3, 10} \cup NearMax

\* a stem of n letters followed by '.' and m - 1 letters (nothing when m = 0)
LongName(n, m) ==
    Rep("a", n) \o (IF m = 0 THEN <<>> ELSE <<".">> \o Rep("x", m - 1))

LongNames == {LongName(n, m) : n \in StemLens, m \in ExtLens}

\* a traversal prefix in front of a long name
TraversalNames == {<<".", ".", "/", ".", ".", "\\">> \o LongName(n, 10) : n \in NearMax}

Filenames == ShortNames \cup LongNames \cup TraversalNames

NoEvent == [top |-> "none"]
NoResponse == [statusCode |-> 0]
NoTrace == [date |-> 0, uuid |-> 0, calls |-> 0, outcome |-> "none", text |-> "none"]

HandlerIdle ==
    /\ pc = "idle"
    /\ now = 1
    /\ event = NoEvent
    /\ response = NoResponse
    /\ trace = NoTrace
    /\ keys = <<>>
    /\ used = {}

SanitizerIdle ==
    /\ sfpc = "none"
    /\ sfIn = <<>>
    /\ sfOut = <<>>
    /\ sfKey = <<>>

InitSanitize ==
    /\ HandlerIdle
    /\ sfpc = "in"
    /\ sfIn \in Filenames
    /\ sfOut = <<>>
    /\ sfKey = <<>>

\* handler.py line 52: safe_filename = sanitize_filename(filename)
Sanitize ==
    /\ sfpc = "in"
    /\ sfOut' = sanitize_filename(sfIn)
    /\ sfpc' = "sanitized"
    /\ UNCHANGED <<sfIn, sfKey>>
    /\ UNCHANGED handlerVars

\* handler.py line 55: the key built from the sanitized name
BuildKey ==
    /\ sfpc = "sanitized"
    /\ \E d \in 1..Len(Dates), u \in UUIDs :
          /\ sfKey' = file_key(Dates[d], u, sfOut)
          /\ now' = d
    /\ sfpc' = "keyed"
    /\ UNCHANGED <<sfIn, sfOut>>
    /\ UNCHANGED <<pc, event, response, trace, keys, used>>

NextSanitize == Sanitize \/ BuildKey

SpecSanitize == InitSanitize /\ [][NextSanitize]_vars


(***************************************************************************)
(* Configuration read at import (handler.py lines 12-16).                  *)
(***************************************************************************)
UPLOAD_BUCKET == "uploads"
ALLOWED_FILE_TYPES == {"image/png", "application/pdf"}
MAX_FILE_SIZE == 10485760
PRESIGNED_URL_EXPIRY == 900
KMS_KEY_ID == "kms-key"

(***************************************************************************)
(* Events.  A JSON object is a record of its three keys, each with a kind: *)
(* "absent" (no such key), "null", "str", "int".  fnKind = "int" is a      *)
(* non-zero number given as filename.                                      *)
(***************************************************************************)
HandlerNames ==
    { <<"a", ".", "b">>,
      <<".", ".", "/", ".", ".", "/", "e", "t", "c", "/", "p", "w">>,
      <<"a", "\\", "b", ":", "c">>,
      LongName(max_length + 1, 4) }

NamePart ==
    {[fnKind |-> "absent", fn |-> <<>>], [fnKind |-> "null", fn |-> <<>>],
     [fnKind |-> "str", fn |-> <<>>], [fnKind |-> "int", fn |-> <<>>]}
      \cup {[fnKind |-> "str", fn |-> f] : f \in HandlerNames}

TypePart ==
    {[ctKind |-> "absent", ct |-> ""], [ctKind |-> "str", ct |-> ""],
     [ctKind |-> "str", ct |-> "image/png"], [ctKind |-> "str", ct |-> "application/pdf"],
     [ctKind |-> "str", ct |-> "text/html"]}

SizePart ==
    {[szKind |-> "absent", sz |-> 0], [szKind |-> "null", sz |-> 0]}
      \cup {[szKind |-> "int", sz |-> n] :
              n \in {0, MAX_FILE_SIZE - 1, MAX_FILE_SIZE, MAX_FILE_SIZE + 1}}

Payloads ==
    {[fnKind |-> n.fnKind, fn |-> n.fn, ctKind |-> t.ctKind, ct |-> t.ct,
      szKind |-> s.szKind, sz |-> s.sz] : n \in NamePart, t \in TypePart, s \in SizePart}

NoPayload == [fnKind |-> "absent", fn |-> <<>>, ctKind |-> "absent", ct |-> "",
              szKind |-> "absent", sz |-> 0]

\* A plain valid request, for the envelope shapes that are not the subject.
PlainPayload == [fnKind |-> "str", fn |-> <<"a", ".", "b">>, ctKind |-> "str",
                 ct |-> "image/png", szKind |-> "int", sz |-> 0]

\* top:      what the event itself is ("dict", or "list" for a JSON array)
\* hasBody:  'body' in event
\* bodyType: type of event['body']: "str", "dict", "null"
\* text:     for a str body, what json.loads makes of it:
\*           "dict", "list" (valid JSON, not an object) or "invalid"
\* payload:  the JSON object carrying the request, where there is one
Ev(top, hasBody, bodyType, text, payload) ==
    [top |-> top, hasBody |-> hasBody, bodyType |-> bodyType, text |-> text,
     payload |-> payload]

Events ==
    {Ev("dict", FALSE, "none", "none", p) : p \in Payloads}
      \cup {Ev("dict", TRUE, "str", "dict", p) : p \in {PlainPayload, NoPayload}}
      \cup {Ev("dict", TRUE, "dict", "none", p) : p \in {PlainPayload, NoPayload}}
      \cup {Ev("dict", TRUE, "str", "invalid", NoPayload),
            Ev("dict", TRUE, "str", "list", NoPayload),
            Ev("dict", TRUE, "null", "none", NoPayload),
            Ev("list", FALSE, "none", "none", NoPayload)}

(***************************************************************************)
(* The body of the try block, stage by stage.  A stage either continues or *)
(* ends the block: [kind |-> "return", ...] or [kind |-> "raise", exc].    *)
(***************************************************************************)
Raise(exc, text) == [kind |-> "raise", exc |-> exc, text |-> text]

Headers == [ContentType |-> "application/json", AccessControlAllowOrigin |-> "*"]

\* handler.py lines 116-129
error_response(status_code, message) ==
    [statusCode |-> status_code, headers |-> Headers, body |-> [error |-> message]]

\* lines 25-32: [ok, isDict, payload] or the exception json.loads raised
Normalize(ev) ==
    IF ev.top = "dict" /\ ev.hasBody
    THEN IF ev.bodyType = "str"
         THEN IF ev.text = "invalid"
              THEN [ok |-> FALSE, isDict |-> FALSE, payload |-> NoPayload]
              ELSE [ok |-> TRUE, isDict |-> ev.text = "dict", payload |-> ev.payload]
         ELSE [ok |-> TRUE, isDict |-> ev.bodyType = "dict", payload |-> ev.payload]
    ELSE [ok |-> TRUE, isDict |-> ev.top = "dict", payload |-> ev.payload]

\* Python truth of body.get(key): None, '' and absent keys are false
Truthy(kind, empty) ==
    CASE kind = "absent" -> FALSE
      [] kind = "null" -> FALSE
      [] kind = "str" -> ~empty
      [] OTHER -> TRUE

MissingMessage == <<"Missing required fields: filename and contentType">>

TypeMessage_generic(content_type) == <<"File type ", "", " is not allowed">>

\* line 45: f"File type {content_type} is not allowed"
TypeMessage(content_type) == <<"File type ", content_type, " is not allowed">>

MB == 1024 * 1024

\* line 49: MAX_FILE_SIZE / (1024 * 1024) is a float; <<q, r>> is q + r / 2^20
SizeMessage ==
    <<"File size exceeds maximum of ", <<MAX_FILE_SIZE \div MB, MAX_FILE_SIZE % MB>>, "MB">>

Validate_size_first(body) ==
    IF body.szKind = "null"
    THEN "TypeError"
    ELSE IF (IF body.szKind = "absent" THEN 0 ELSE body.sz) > MAX_FILE_SIZE
    THEN "SizeExceeded"
    ELSE IF ~Truthy(body.fnKind, body.fn = <<>>) \/ ~Truthy(body.ctKind, body.ct = "")
    THEN "MissingField"
    ELSE IF body.ct \notin ALLOWED_FILE_TYPES
    THEN "UnsupportedType"
    ELSE "ok"

Validate_strict_less(body) ==
    IF ~Truthy(body.fnKind, body.fn = <<>>) \/ ~Truthy(body.ctKind, body.ct = "")
    THEN "MissingField"
    ELSE IF body.ct \notin ALLOWED_FILE_TYPES
    THEN "UnsupportedType"
    ELSE IF body.szKind = "null"
    THEN "TypeError"
    ELSE IF (IF body.szKind = "absent" THEN 0 ELSE body.sz) >= MAX_FILE_SIZE
    THEN "SizeExceeded"
    ELSE "ok"

\* lines 35-49: the three checks in order; None > int raises TypeError
Validate(body) ==
    IF ~Truthy(body.fnKind, body.fn = <<>>) \/ ~Truthy(body.ctKind, body.ct = "")
    THEN "MissingField"
    ELSE IF body.ct \notin ALLOWED_FILE_TYPES
    THEN "UnsupportedType"
    ELSE IF body.szKind = "null"
    THEN "TypeError"
    ELSE IF (IF body.szKind = "absent" THEN 0 ELSE body.sz) > MAX_FILE_SIZE
    THEN "SizeExceeded"
    ELSE "ok"

\* lines 58-68: the parameters handed to generate_presigned_url
SignParams(file_key_, content_type) ==
    [Bucket |-> UPLOAD_BUCKET, Key |-> file_key_, ContentType |-> content_type,
     ServerSideEncryption |-> "aws:kms", SSEKMSKeyId |-> KMS_KEY_ID,
     ExpiresIn |-> PRESIGNED_URL_EXPIRY]

\* lines 72-84
success_response(presigned_url, file_key_) ==
    [statusCode |-> 200, headers |-> Headers,
     body |-> [uploadUrl |-> presigned_url, fileKey |-> file_key_,
               expiresIn |-> PRESIGNED_URL_EXPIRY,
               message |-> "Upload URL generated successfully"]]

\* How far the try block gets: "normalize", "validate", "sanitize", "issuer"
Reaches(ev) ==
    LET n == Normalize(ev)
    IN IF ~n.ok \/ ~n.isDict THEN "normalize"
       ELSE IF Validate(n.payload) # "ok" THEN "validate"
       ELSE IF n.payload.fnKind # "str" THEN "sanitize"
       ELSE "issuer"

\* lines 24-84.  d: the day utcnow() reports, u: the uuid4 drawn,
\* iss: the outcome of generate_presigned_url, [kind, text]
TryBlock(ev, d, u, iss) ==
    LET n == Normalize(ev)
        body == n.payload
        v == Validate(body)
        key == file_key(d, u, sanitize_filename(body.fn))
    IN IF ~n.ok THEN Raise("JSONDecodeError", "Expecting value")
       ELSE IF ~n.isDict THEN Raise("AttributeError", "no attribute 'get'")
       ELSE IF v = "MissingField"
       THEN [kind |-> "return", value |-> error_response(400, MissingMessage)]
       ELSE IF v = "UnsupportedType"
       THEN [kind |-> "return", value |-> error_response(400, TypeMessage(body.ct))]
       ELSE IF v = "TypeError" THEN Raise("TypeError", "'>' not supported")
       ELSE IF v = "SizeExceeded"
       THEN [kind |-> "return", value |-> error_response(400, SizeMessage)]
       ELSE IF body.fnKind # "str" THEN Raise("TypeError", "expected str")
       ELSE IF iss.kind # "ok" THEN Raise(iss.kind, iss.text)
       ELSE [kind |-> "return",
             value |-> success_response([signed |-> SignParams(key, body.ct)], key)]

Uncaught == [statusCode |-> -1]

ExceptClauses_only_ClientError(r) ==
    IF r.kind = "return" THEN r.value
    ELSE IF r.exc = "ClientError"
    THEN error_response(500, <<"Failed to generate upload URL">>)
    ELSE Uncaught

ExceptClauses_leak(r) ==
    IF r.kind = "return" THEN r.value
    ELSE IF r.exc = "ClientError"
    THEN error_response(500, <<r.text>>)
    ELSE error_response(500, <<"Internal server error">>)

\* lines 86-92: except ClientError, then except Exception.  Every exception
\* the try block raises here is an Exception, so nothing is left to propagate.
ExceptClauses(r) ==
    IF r.kind = "return" THEN r.value
    ELSE IF r.exc = "ClientError"
    THEN error_response(500, <<"Failed to generate upload URL">>)
    ELSE error_response(500, <<"Internal server error">>)

\* What generate_presigned_url can do: return, raise ClientError, or raise
\* another botocore error; the texts are what str(e) would show.
ErrTexts == {"AccessDenied: arn:aws:kms:key", "ExpiredToken: sts"}

IssuerOutcomes ==
    {[kind |-> "ok", text |-> "none"]}
      \cup {[kind |-> k, text |-> t] : k \in {"ClientError", "BotoCoreError"}, t \in ErrTexts}

NotCalled == [kind |-> "none", text |-> "none"]

(***************************************************************************)
(* Actions.                                                                *)
(***************************************************************************)
Init == HandlerIdle /\ SanitizerIdle

\* The runtime hands the next event, one of evs, to the handler.
ReceiveFrom(evs) ==
    /\ pc \in {"idle", "returned"}
    /\ \E ev \in evs : event' = ev
    /\ pc' = "received"
    /\ response' = NoResponse
    /\ trace' = NoTrace
    /\ UNCHANGED <<now, keys, used>>
    /\ UNCHANGED sanitizeVars

Receive == ReceiveFrom(Events)

\* One whole run of lambda_handler on the received event; uuid4 draws from ids.
Handle(ids) ==
    /\ pc = "received"
    /\ \E u \in (IF Reaches(event) = "issuer" THEN ids ELSE {0}),
          iss \in (IF Reaches(event) = "issuer" THEN IssuerOutcomes ELSE {NotCalled}) :
          LET r == ExceptClauses(TryBlock(event, Dates[now], u, iss))
          IN /\ response' = r
             /\ pc' = IF r = Uncaught THEN "faulted" ELSE "returned"
             /\ trace' = [date |-> now, uuid |-> u,
                          calls |-> IF iss.kind = "none" THEN 0 ELSE 1,
                          outcome |-> iss.kind, text |-> iss.text]
    /\ UNCHANGED <<now, event>>
    /\ UNCHANGED sanitizeVars

LambdaHandler == Handle(UUIDs) /\ UNCHANGED <<keys, used>>

\* The UTC day changes.
Tick ==
    /\ now < Len(Dates)
    /\ now' = now + 1
    /\ UNCHANGED <<pc, event, response, trace, keys, used>>
    /\ UNCHANGED sanitizeVars

Next == Receive \/ LambdaHandler \/ Tick

Spec == Init /\ [][Next]_vars

(***************************************************************************)
(* The same handler with the history of what it issued.  uuid4 is taken as *)
(* a generator of fresh identifiers: it never repeats one it has produced  *)
(* (122 random bits).                                                      *)
(***************************************************************************)
UploadEvents ==
    {Ev("dict", FALSE, "none", "none",
        [fnKind |-> "str", fn |-> f, ctKind |-> "str", ct |-> "image/png",
         szKind |-> "absent", sz |-> 0]) :
       f \in {<<"a", ".", "b">>, <<"x", "/", "a", ".", "b">>, <<"c">>}}

ReceiveUpload == ReceiveFrom(UploadEvents)

LambdaHandlerLogged ==
    /\ Cardinality(used) < MaxInvocations
    /\ Handle(UUIDs \ used)
    /\ used' = IF trace'.uuid = 0 THEN used ELSE used \cup {trace'.uuid}
    /\ keys' = IF response'.statusCode = 200
               THEN Append(keys, response'.body.fileKey)
               ELSE keys

NextKeys == ReceiveUpload \/ LambdaHandlerLogged \/ Tick

SpecKeys == Init /\ [][NextKeys]_vars


(***************************************************************************)
(* Properties.                                                             *)
(***************************************************************************)
Returned == pc = "returned"

\* The event carries a JSON object as its request, in one of the envelopes.
HasRequest ==
    /\ event.top = "dict"
    /\ \/ ~event.hasBody
       \/ event.bodyType = "dict"
       \/ event.bodyType = "str" /\ event.text = "dict"

NameGiven == event.payload.fnKind = "int" \/ (event.payload.fnKind = "str" /\ event.payload.fn # <<>>)
TypeGiven == event.payload.ctKind = "str" /\ event.payload.ct # ""
TypeAllowed == event.payload.ctKind = "str" /\ event.payload.ct \in {"image/png", "application/pdf"}
SizeWithinLimit ==
    \/ event.payload.szKind = "absent"
    \/ event.payload.szKind = "int" /\ event.payload.sz <= 10485760
SizeOverLimit == event.payload.szKind = "int" /\ event.payload.sz > 10485760

FixedHeaders == [ContentType |-> "application/json", AccessControlAllowOrigin |-> "*"]

ErrorIs(status, message) ==
    /\ response.statusCode = status
    /\ response.headers = FixedHeaders
    /\ response.body.error = message

SizeText == <<"File size exceeds maximum of ", <<10, 0>>, "MB">>

\* 200 with a key <date of the invocation>/<the uuid drawn>-<sanitized filename>
SuccessWithKey ==
    /\ response.statusCode = 200
    /\ response.body.fileKey =
          strftime(Dates[trace.date]) \o <<"/">> \o UuidStr(trace.uuid) \o <<"-">>
            \o sanitize_filename(event.payload.fn)

ValidRequest ==
    /\ HasRequest
    /\ event.payload.fnKind = "str" /\ event.payload.fn # <<>>
    /\ TypeAllowed
    /\ SizeWithinLimit

\* C1 as stated: every request with a non-empty filename, an allowed content
\* type and a size within the limit is answered 200 with the key
\* <UTC date>/<fresh id>-<sanitized filename>.
C1_Original == Returned /\ ValidRequest => SuccessWithKey

\* C1 amended: the same, for the invocations whose Credential Issuer call
\* returns a URL (generate_presigned_url does not raise).
C1_Amended == Returned /\ ValidRequest /\ trace.outcome = "ok" => SuccessWithKey

C1_Witness ==
    /\ Returned
    /\ response.statusCode = 200
    /\ event.payload.fn = <<".", ".", "/", ".", ".", "/", "e", "t", "c", "/", "p", "w">>
    /\ trace.date = 2

\* C4: the checks run in the order fields, type, size and stop at the first
\* failure: a request missing a field gets the missing-fields 400 whatever
\* its type and size, a request with both fields and a disallowed type gets
\* the type rejection whatever its size, and the issuer is never called for
\* a request that fails a check.
C4_Order ==
    Returned /\ HasRequest =>
        /\ ~NameGiven \/ ~TypeGiven =>
              /\ ErrorIs(400, <<"Missing required fields: filename and contentType">>)
              /\ trace.calls = 0
        /\ NameGiven /\ TypeGiven /\ ~TypeAllowed =>
              /\ ErrorIs(400, <<"File type ", event.payload.ct, " is not allowed">>)
              /\ trace.calls = 0
        /\ NameGiven /\ TypeAllowed /\ SizeOverLimit =>
              /\ response.statusCode = 400
              /\ trace.calls = 0
        /\ response.statusCode = 400 => trace.calls = 0

C4_Witness ==
    /\ Returned
    /\ event.payload.fnKind = "absent"
    /\ event.payload.ct = "text/html"
    /\ SizeOverLimit
    /\ response.statusCode = 400

\* C5 as stated: every content type outside the allow-list is answered 400
\* with a message naming the rejected type.
C5_Original ==
    Returned /\ HasRequest /\ event.payload.ctKind = "str" /\ ~TypeAllowed =>
        ErrorIs(400, <<"File type ", event.payload.ct, " is not allowed">>)

\* C5 amended: a request whose content type is outside the allow-list is
\* answered 400, and the message names the rejected type when filename and
\* contentType are both present and non-empty (otherwise it is the
\* missing-fields message).
C5_Amended ==
    Returned /\ HasRequest /\ event.payload.ctKind = "str" /\ ~TypeAllowed =>
        /\ response.statusCode = 400
        /\ NameGiven /\ TypeGiven =>
              ErrorIs(400, <<"File type ", event.payload.ct, " is not allowed">>)
        /\ ~(NameGiven /\ TypeGiven) =>
              ErrorIs(400, <<"Missing required fields: filename and contentType">>)

C5_Witness ==
    /\ Returned
    /\ NameGiven
    /\ event.payload.ct = "text/html"
    /\ SizeOverLimit
    /\ response.statusCode = 400

\* C6 as stated: a declared size over the maximum is answered 400 with a
\* message giving the configured limit, and a size equal to or below the
\* maximum (or an omitted one, taken as 0) is never rejected for size.
C6_Original ==
    Returned /\ HasRequest =>
        /\ SizeOverLimit => ErrorIs(400, SizeText)
        /\ SizeWithinLimit /\ response.statusCode # 200 => response.body.error # SizeText

\* C6 amended: a declared size over the maximum is answered 400, with the
\* message giving the configured limit when the request passes the field and
\* type checks; a size equal to or below the maximum (or an omitted one,
\* taken as 0) is never rejected for size.
C6_Amended ==
    Returned /\ HasRequest =>
        /\ SizeOverLimit => response.statusCode = 400
        /\ SizeOverLimit /\ NameGiven /\ TypeAllowed => ErrorIs(400, SizeText)
        /\ SizeWithinLimit /\ response.statusCode # 200 => response.body.error # SizeText

C6_Witness ==
    /\ Returned
    /\ NameGiven
    /\ TypeAllowed
    /\ event.payload.sz = 10485761
    /\ response.statusCode = 400

\* C7: a body that is a string but not valid JSON is a MalformedRequest,
\* answered with status 400.
C7_Malformed400 ==
    Returned /\ event.top = "dict" /\ event.hasBody /\ event.bodyType = "str"
      /\ event.text = "invalid" => response.statusCode = 400

C9_Generic ==
    /\ trace.calls <= 1
    /\ Returned /\ trace.outcome \in {"ClientError", "BotoCoreError"} =>
          /\ trace.calls = 1
          /\ ErrorIs(500, IF trace.outcome = "ClientError"
                          THEN <<"Failed to generate upload URL">>
                          ELSE <<"Internal server error">>)
          /\ response.body.error # <<trace.text>>

C9_Witness ==
    /\ Returned
    /\ trace.outcome = "ClientError"
    /\ trace.text = "ExpiredToken: sts"
    /\ response.statusCode = 500

\* C10: no two 200 responses carry the same storage key, whatever their
\* filenames and dates.
C10_DistinctKeys ==
    \A i, j \in 1..Len(keys) : i # j => keys[i] # keys[j]

\* two successes on the same day for the same sanitized filename
C10_Witness ==
    /\ Len(keys) >= 2
    /\ SubSeq(keys[1], 1, 11) = SubSeq(keys[2], 1, 11)
    /\ SubSeq(keys[1], 48, Len(keys[1])) = SubSeq(keys[2], 48, Len(keys[2]))

\* C2: the sanitized filename holds no '/' and no '\', and the key built from
\* it is the YYYY/MM/DD partition followed by one further path segment.
C2_NoEscape ==
    /\ sfpc \in {"sanitized", "keyed"} =>
          \A i \in 1..Len(sfOut) : sfOut[i] # "/" /\ sfOut[i] # "\\"
    /\ sfpc = "keyed" =>
          /\ SubSeq(sfKey, 1, 11) = strftime(Dates[now]) \o <<"/">>
          /\ Len(sfKey) > 11
          /\ \A i \in 12..Len(sfKey) : sfKey[i] # "/"

C2_Witness ==
    /\ sfpc = "keyed"
    /\ SubSeq(sfIn, 1, 6) = <<".", ".", "/", ".", ".", "\\">>

\* C3: the sanitized filename has at most 200 characters, and a name that
\* had to be cut is a prefix of its stem followed by its whole extension.
C3_AtMost200 ==
    sfpc \in {"sanitized", "keyed"} =>
        LET cleaned == replace_dangerous(basename(sfIn))
            parts == splitext(cleaned)
        IN /\ Len(sfOut) <= 200
           /\ Len(cleaned) > 200 =>
                 \E k \in 0..Len(parts.name) : sfOut = SubSeq(parts.name, 1, k) \o parts.ext

====
